---- MODULE Spec2Model ----
(***************************************************************************)
(* Dashboard-machine: the machine collection store (useMachines), its      *)
(* one-slot undo buffer and the localStorage adapter (useLocalStorage),    *)
(* driven by the add form, the edit form, the delete and undo buttons and  *)
(* page reloads.                                                           *)
(*                                                                         *)
(* A React event handler only enqueues state updates; the following render *)
(* applies them and the passive effect of useLocalStorage then writes the  *)
(* new value to localStorage.  pc records where the page is in that cycle. *)
(***************************************************************************)
EXTENDS Integers, Sequences, FiniteSets, TLC

VARIABLES
    machines,     \* useLocalStorage: the committed state `value` (the collection)
    lastDeleted,  \* useMachines: the undo buffer, Null or <<[machine, index]>>
    storage,      \* localStorage item 'machines': Null (absent) or <<JSON value>>
    queue,        \* updates handed to setMachines and not yet rendered
    ldQueue,      \* values handed to setLastDeleted and not yet rendered
    pc,           \* "idle" | "render" | "effect" | "crashed"
    seeded,       \* whether the caller of useLocalStorage passes a seed
    addError,     \* AddMachineForm: the error message is shown
    editError,    \* EditMachineForm: the error message is shown
    clock,        \* the current time, as read by new Date()
    nextId,       \* number of UUIDs drawn so far from crypto.randomUUID()
    statusFilter, \* App: the selected status filter, 'ALL' or a status
    searchQuery,  \* App: the text typed into the search box
    call,         \* history: the last call of a hook operation, [op, arg]
    undoBase,     \* history: Some(the collection before the delete just rendered)
    overwritten,  \* history: ids whose buffered deletion a later delete replaced
    nOps          \* the number of operations called, which bounds the exploration

vars == <<machines, lastDeleted, storage, queue, ldQueue, pc, seeded,
          addError, editError, clock, nextId, statusFilter, searchQuery,
          call, undoBase, overwritten, nOps>>

----------------------------------------------------------------------------
(* Bounds of the exploration *)
MaxOps == 2
MaxDrain == 6
MaxView == 1
MaxBatch == 2

----------------------------------------------------------------------------
(* Values *)

\* null / undefined / an absent localStorage item, and a present value
Null == <<>>
Some(x) == <<x>>

\* a JavaScript string (a sequence of characters) and a Date (a time)
Str(chars) == [kind |-> "str", val |-> chars]
DateVal(t) == [kind |-> "date", val |-> t]
\* the JSON text of a Date: the string toISOString() gives for time t
IsoStr(t) == [kind |-> "iso", val |-> t]

\* enum MachineStatus, referenced by Machine.status
Idle == Str(<<"I", "d", "l", "e">>)
Running == Str(<<"R", "u", "n", "n", "i", "n", "g">>)
Offline == Str(<<"O", "f", "f", "l", "i", "n", "e">>)
MachineStatus == {Idle, Running, Offline}

\* interface Machine
Machine(id, name, status, lastUpdated) ==
    [id |-> id, name |-> name, status |-> status, lastUpdated |-> lastUpdated]

DigitChars == <<"0", "1", "2", "3", "4", "5", "6", "7", "8", "9">>

\* the number of machines in seedMachines
SeedSize == 6

\* faulty variant: an identifier source that repeats the first seed id after the seed
UUID_notFresh(n) ==
    IF n > SeedSize THEN Str(<<"u", "0", "1">>)
    ELSE Str(<<"u", DigitChars[(n \div 10) + 1], DigitChars[(n % 10) + 1]>>)

\* crypto.randomUUID(): the n-th identifier drawn, never equal to an earlier one
UUID(n) == Str(<<"u", DigitChars[(n \div 10) + 1], DigitChars[(n % 10) + 1]>>)

\* what a user enters into a form: the typed name and the selected status
FormInputs ==
    { [name |-> <<"A", "B">>, status |-> Offline],
      [name |-> <<"2", "0", "2", "4">>, status |-> Running],
      [name |-> <<"A">>, status |-> Idle],
      [name |-> <<" ", "A", " ">>, status |-> Running] }

----------------------------------------------------------------------------
(* String helpers *)

IsSpace(c) == c = " "

RECURSIVE TrimStart(_)
TrimStart(s) ==
    IF s = <<>> THEN <<>>
    ELSE IF IsSpace(Head(s)) THEN TrimStart(Tail(s)) ELSE s

RECURSIVE TrimEnd(_)
TrimEnd(s) ==
    IF s = <<>> THEN <<>>
    ELSE IF IsSpace(s[Len(s)]) THEN TrimEnd(SubSeq(s, 1, Len(s) - 1)) ELSE s

\* String.prototype.trim
Trim(s) == TrimEnd(TrimStart(s))

\* the validation of both forms: name.trim().length < 2
NameTooShort(name) == Len(Trim(name)) < 2

IsDigit(c) == \E i \in 1..10 : DigitChars[i] = c

DigitValue(c) == (CHOOSE i \in 1..10 : DigitChars[i] = c) - 1

\* new Date(text).getTime(): a time, or NaN.  Of the texts of this model the
\* date parser accepts the four-digit year form ("2024"); the time it gives
\* is counted in years.  Names made of letters, the status names and the
\* identifiers are rejected.
NaN == -1
DateParse(chars) ==
    IF Len(chars) = 4 /\ \A i \in 1..4 : IsDigit(chars[i])
    THEN DigitValue(chars[1]) * 1000 + DigitValue(chars[2]) * 100
         + DigitValue(chars[3]) * 10 + DigitValue(chars[4])
    ELSE NaN

----------------------------------------------------------------------------
(* JSON: JSON.stringify(value) and JSON.parse(stored, dateReviver) *)

\* JSON.stringify of one leaf: a string stays a string, a Date becomes its
\* ISO string (Date.prototype.toJSON)
StringifyLeaf(v) == IF v.kind = "date" THEN IsoStr(v.val) ELSE v

\* dateReviver: every string that the date parser accepts becomes a Date
dateReviver(v) ==
    IF v.kind = "iso" THEN DateVal(v.val)
    ELSE IF DateParse(v.val) # NaN THEN DateVal(DateParse(v.val))
    ELSE v

Stringify(ms) ==
    [i \in 1..Len(ms) |->
        Machine(StringifyLeaf(ms[i].id), StringifyLeaf(ms[i].name),
                StringifyLeaf(ms[i].status), StringifyLeaf(ms[i].lastUpdated))]

Parse(json) ==
    [i \in 1..Len(json) |->
        Machine(dateReviver(json[i].id), dateReviver(json[i].name),
                dateReviver(json[i].status), dateReviver(json[i].lastUpdated))]

----------------------------------------------------------------------------
(* Seed data *)

\* the module-level seedMachines: six machines whose ids are drawn and whose
\* lastUpdated is read when the module is loaded
seedMachines(base, now) ==
    << Machine(UUID(base + 1), Str(<<"C","u","t","t","e","r"," ","A">>), Running, DateVal(now)),
       Machine(UUID(base + 2), Str(<<"P","r","e","s","s"," ","B">>), Idle, DateVal(now)),
       Machine(UUID(base + 3), Str(<<"W","e","l","d","e","r"," ","C">>), Offline, DateVal(now)),
       Machine(UUID(base + 4), Str(<<"L","a","t","h","e"," ","D">>), Running, DateVal(now)),
       Machine(UUID(base + 5), Str(<<"D","r","i","l","l"," ","E">>), Idle, DateVal(now)),
       Machine(UUID(base + 6), Str(<<"R","o","b","o","t"," ","F">>), Running, DateVal(now)) >>

\* the second argument useMachines passes to useLocalStorage: []
initialValue == <<>>

----------------------------------------------------------------------------
(* useLocalStorage *)

\* faulty variant: an initializer that falls back to the seed when the stored
\* collection is empty
Initializer_reseedsEmpty(stored, hasSeed, seed) ==
    IF stored # Null /\ Parse(stored[1]) # <<>>
    THEN [value |-> Parse(stored[1]), store |-> stored, seedUsed |-> FALSE]
    ELSE IF hasSeed
    THEN [value |-> seed, store |-> Some(Stringify(seed)), seedUsed |-> TRUE]
    ELSE [value |-> initialValue, store |-> stored, seedUsed |-> FALSE]

\* the lazy initializer of useState: [value |-> the first state,
\* store |-> the localStorage item when it returns,
\* seedUsed |-> whether the seed became the state]
Initializer(stored, hasSeed, seed) ==
    IF stored # Null
    THEN [value |-> Parse(stored[1]), store |-> stored, seedUsed |-> FALSE]
    ELSE IF hasSeed
    THEN [value |-> seed, store |-> Some(Stringify(seed)), seedUsed |-> TRUE]
    ELSE [value |-> initialValue, store |-> stored, seedUsed |-> FALSE]

\* faulty variant: an effect that writes the initial value instead of the state
PersistEffect_initial(value) == Some(Stringify(initialValue))

\* the body of the useEffect: localStorage.setItem(key, JSON.stringify(value))
PersistEffect(value) == Some(Stringify(value))

----------------------------------------------------------------------------
(* useMachines: the values and updater functions handed to setMachines *)

IdsOf(ms) == {ms[i].id : i \in 1..Len(ms)}

\* faulty variant: an add that puts the new record first
addMachine_prepend(ms, machine) == <<machine>> \o ms

\* [...machines, machine]
addMachine(ms, machine) == Append(ms, machine)

\* faulty variant: an update that stamps every record with the new lastUpdated and
\* appends the record when no id matches
updateMachine_upsert(ms, updated) ==
    IF updated.id \in IdsOf(ms)
    THEN [i \in 1..Len(ms) |->
             IF ms[i].id = updated.id THEN updated
             ELSE [ms[i] EXCEPT !.lastUpdated = updated.lastUpdated]]
    ELSE Append(ms, updated)

\* machines.map(m => m.id === updated.id ? updated : m)
updateMachine(ms, updated) ==
    [i \in 1..Len(ms) |-> IF ms[i].id = updated.id THEN updated ELSE ms[i]]

\* faulty variant: a search that answers the last index when nothing matches
findIndex_lastWhenMissing(prev, id) ==
    IF \E i \in 1..Len(prev) : prev[i].id = id
    THEN (CHOOSE i \in 1..Len(prev) :
              prev[i].id = id /\ \A j \in 1..(i - 1) : prev[j].id # id) - 1
    ELSE Len(prev) - 1

\* prev.findIndex(m => m.id === id): the 0-based index of the first match, or -1
findIndex(prev, id) ==
    IF \E i \in 1..Len(prev) : prev[i].id = id
    THEN (CHOOSE i \in 1..Len(prev) :
              prev[i].id = id /\ \A j \in 1..(i - 1) : prev[j].id # id) - 1
    ELSE -1

\* prev.filter(m => m.id !== id)
RECURSIVE filterOut(_, _)
filterOut(prev, id) ==
    IF prev = <<>> THEN <<>>
    ELSE IF Head(prev).id # id
         THEN <<Head(prev)>> \o filterOut(Tail(prev), id)
         ELSE filterOut(Tail(prev), id)

\* faulty variant: a splice that inserts one position too far
splice_afterIndex(prev, index, machine) ==
    LET at == IF index + 1 > Len(prev) THEN Len(prev) ELSE index + 1
    IN  SubSeq(prev, 1, at) \o <<machine>> \o SubSeq(prev, at + 1, Len(prev))

\* next.splice(index, 0, machine): a start beyond the end is clamped to the end
splice(prev, index, machine) ==
    LET at == IF index > Len(prev) THEN Len(prev) ELSE index
    IN  SubSeq(prev, 1, at) \o <<machine>> \o SubSeq(prev, at + 1, Len(prev))

\* faulty variant: a delete that records the index the record would have at the end
\* of the remaining collection
deleteUpdater_wrongIndex(prev, id) ==
    LET index == findIndex(prev, id)
    IN  IF index = -1
        THEN [value |-> prev, buffered |-> Null]
        ELSE [value |-> filterOut(prev, id),
              buffered |-> Some([machine |-> prev[index + 1],
                                 index |-> Len(prev) - 1])]

\* faulty variant: a delete that records the 1-based position of the record
deleteUpdater_oneBased(prev, id) ==
    LET index == findIndex(prev, id)
    IN  IF index = -1
        THEN [value |-> prev, buffered |-> Null]
        ELSE [value |-> filterOut(prev, id),
              buffered |-> Some([machine |-> prev[index + 1], index |-> index + 1])]

\* faulty variant: a delete that buffers the record and leaves it in the collection
deleteUpdater_keepsRecord(prev, id) ==
    LET index == findIndex(prev, id)
    IN  IF index = -1
        THEN [value |-> prev, buffered |-> Null]
        ELSE [value |-> prev,
              buffered |-> Some([machine |-> prev[index + 1], index |-> index])]

\* the updater of deleteMachine: [value |-> what it returns,
\* buffered |-> what it hands to setLastDeleted (Null when it does not call it)]
deleteUpdater(prev, id) ==
    LET index == findIndex(prev, id)
    IN  IF index = -1
        THEN [value |-> prev, buffered |-> Null]
        ELSE [value |-> filterOut(prev, id),
              buffered |-> Some([machine |-> prev[index + 1], index |-> index])]

\* faulty variant: an undo that always puts the record at the end
undoUpdater_append(prev, ld) == Append(prev, ld.machine)

\* the updater of undoDelete, closed over the lastDeleted of its render
undoUpdater(prev, ld) == splice(prev, ld.index, ld.machine)

\* The updates of setMachines waiting for the next render
SetValue(v) == [op |-> "set", arg |-> v]
DeleteUpdate(id) == [op |-> "delete", arg |-> id]
UndoUpdate(ld) == [op |-> "undo", arg |-> ld]

\* React applies the queued updates in order.  Result: the new state, the
\* values the updaters handed to setLastDeleted, and whether the state is a
\* new array (an updater that returns prev leaves the state identical).
RECURSIVE ApplyQueue(_, _, _, _)
ApplyQueue(q, prev, lds, changed) ==
    IF q = <<>> THEN [value |-> prev, lds |-> lds, changed |-> changed]
    ELSE LET u == Head(q)
         IN  IF u.op = "set"
             THEN ApplyQueue(Tail(q), u.arg, lds, TRUE)
             ELSE IF u.op = "undo"
             THEN ApplyQueue(Tail(q), undoUpdater(prev, u.arg), lds, TRUE)
             ELSE LET d == deleteUpdater(prev, u.arg)
                  IN  IF d.buffered = Null
                      THEN ApplyQueue(Tail(q), prev, lds, changed)
                      ELSE ApplyQueue(Tail(q), d.value,
                                      Append(lds, d.buffered), TRUE)

\* faulty variant: a buffer that keeps the first deletion until it is undone
applyLastDeleted_keepFirst(cur, sets) ==
    IF sets = <<>> THEN cur
    ELSE IF cur # Null /\ sets[Len(sets)] # Null THEN cur
    ELSE sets[Len(sets)]

\* React applies the values handed to setLastDeleted in order: the last wins
applyLastDeleted(cur, sets) == IF sets = <<>> THEN cur ELSE sets[Len(sets)]

\* a call of one of the hook's operations ("add", "update", "delete", "undo")
\* or a page load ("load", with the localStorage item it found)
Call(op, arg) == [op |-> op, arg |-> arg]

\* App's filter calls machine.name.toLowerCase(): a name that is not a
\* string makes the render throw
RenderThrows(ms) == \E i \in 1..Len(ms) : ms[i].name.kind # "str"

----------------------------------------------------------------------------
(* App: the view projection filteredMachines *)

UpperChars == <<"A","B","C","D","E","F","G","H","I","J","K","L","M",
                "N","O","P","Q","R","S","T","U","V","W","X","Y","Z">>
LowerChars == <<"a","b","c","d","e","f","g","h","i","j","k","l","m",
                "n","o","p","q","r","s","t","u","v","w","x","y","z">>

\* the lower-case letter of each upper-case letter
LowerOf ==
    [c \in {UpperChars[n] : n \in 1..26} |->
        LowerChars[CHOOSE n \in 1..26 : UpperChars[n] = c]]

\* faulty variant: a lower-casing that leaves every character as it is
toLowerCase_identity(chars) == chars

\* String.prototype.toLowerCase: every upper-case letter becomes its
\* lower-case letter, every other character stays
toLowerCase(chars) ==
    [k \in 1..Len(chars) |->
        IF chars[k] \in DOMAIN LowerOf THEN LowerOf[chars[k]] ELSE chars[k]]

\* String.prototype.includes: needle occurs in hay at some position
includes(hay, needle) ==
    \E k \in 0..(Len(hay) - Len(needle)) :
        SubSeq(hay, k + 1, k + Len(needle)) = needle

\* the value 'ALL' of StatusFilterValue
ALL == Str(<<"A", "L", "L">>)

\* the options of the StatusFilter select
StatusFilterValues == {ALL} \cup MachineStatus

\* what a user types into the search box
SearchTexts ==
    { <<>>, <<"c","u","t","t">>, <<"C","U","T","T">>, <<"z","z","z">>, <<"a">> }

\* faulty variant: a status test that has no 'ALL'
matchesStatus_noAll(machine, filter) == machine.status = filter

\* statusFilter === 'ALL' || machine.status === statusFilter
matchesStatus(machine, filter) == filter = ALL \/ machine.status = filter

\* machine.name.toLowerCase().includes(searchQuery.toLowerCase())
matchesSearch(machine, query) ==
    includes(toLowerCase(machine.name.val), toLowerCase(query))

\* machines.filter(machine => matchesStatus && matchesSearch)
RECURSIVE filteredMachines(_, _, _)
filteredMachines(ms, filter, query) ==
    IF ms = <<>> THEN <<>>
    ELSE IF matchesStatus(Head(ms), filter) /\ matchesSearch(Head(ms), query)
         THEN <<Head(ms)>> \o filteredMachines(Tail(ms), filter, query)
         ELSE filteredMachines(Tail(ms), filter, query)

----------------------------------------------------------------------------
(* Initial state: the page is loaded for the first time in this session.   *)
(* localStorage holds nothing (first visit) or what an earlier session     *)
(* left there; useMachines always passes the seed.                         *)

\* the localStorage item found at the first load: absent, or the empty
\* collection an earlier session wrote after every machine was deleted
StoredInputs == { Null, Some(Stringify(<<>>)) }

FirstLoad(stored, hasSeed) ==
    /\ seeded = hasSeed
    /\ LET r == Initializer(stored, hasSeed, seedMachines(0, 0))
       IN  /\ machines = r.value
           /\ storage = r.store
    /\ lastDeleted = Null
    /\ queue = <<>>
    /\ ldQueue = <<>>
    /\ pc = "effect"
    /\ addError = FALSE
    /\ editError = FALSE
    /\ clock = 1
    /\ nextId = SeedSize
    /\ statusFilter = ALL
    /\ searchQuery = <<>>
    /\ call = Call("load", stored)
    /\ undoBase = Null
    /\ overwritten = {}
    /\ nOps = 0

Init == \E stored \in StoredInputs : FirstLoad(stored, TRUE)

\* useLocalStorage used with or without a seed
InitHook == \E stored \in StoredInputs, hasSeed \in BOOLEAN : FirstLoad(stored, hasSeed)

----------------------------------------------------------------------------
(* Event handlers.  Every new Date() reads the clock, and time passes      *)
(* between two readings.                                                   *)

hookState == <<machines, lastDeleted, storage, seeded, undoBase, overwritten>>
formState == <<addError, editError>>
viewState == <<statusFilter, searchQuery>>

\* the ids of the cards App renders: one card for each machine of the
\* projection, none when the render throws
ShownIds ==
    IF RenderThrows(machines) THEN {}
    ELSE IdsOf(filteredMachines(machines, statusFilter, searchQuery))

\* AddMachineForm.submit with the typed name and the selected status
AddSubmit(in) ==
    /\ pc = "idle"
    /\ IF NameTooShort(in.name)
       THEN /\ addError' = TRUE
            /\ UNCHANGED <<queue, nextId, clock, nOps, call, pc>>
       ELSE /\ nOps < MaxOps
            /\ LET machine == Machine(UUID(nextId + 1), Str(in.name), in.status,
                                      DateVal(clock))
               IN  /\ queue' = Append(queue, SetValue(addMachine(machines, machine)))
                   /\ call' = Call("add", machine)
            /\ nextId' = nextId + 1
            /\ clock' = clock + 1
            /\ nOps' = nOps + 1
            /\ addError' = FALSE
            /\ pc' = "render"
    /\ UNCHANGED <<hookState, viewState, ldQueue, editError>>

\* faulty variant: a save that leaves lastUpdated as it was
EditSave_keepsLastUpdated(i, in) ==
    /\ pc = "idle"
    /\ i \in 1..Len(machines)
    /\ machines[i].id \in ShownIds
    /\ IF NameTooShort(in.name)
       THEN /\ editError' = TRUE
            /\ UNCHANGED <<queue, clock, nOps, call, pc>>
       ELSE /\ nOps < MaxOps
            /\ LET updated == [machines[i] EXCEPT !.name = Str(in.name),
                                                  !.status = in.status]
               IN  /\ queue' = Append(queue, SetValue(updateMachine(machines, updated)))
                   /\ call' = Call("update", updated)
            /\ clock' = clock + 1
            /\ nOps' = nOps + 1
            /\ editError' = FALSE
            /\ pc' = "render"
    /\ UNCHANGED <<hookState, viewState, ldQueue, addError, nextId>>

\* EditMachineForm.save in the card of machines[i], then MachineCard's onSave
EditSave(i, in) ==
    /\ pc = "idle"
    /\ i \in 1..Len(machines)
    /\ machines[i].id \in ShownIds
    /\ IF NameTooShort(in.name)
       THEN /\ editError' = TRUE
            /\ UNCHANGED <<queue, clock, nOps, call, pc>>
       ELSE /\ nOps < MaxOps
            /\ LET updated == [machines[i] EXCEPT !.name = Str(in.name),
                                                  !.status = in.status,
                                                  !.lastUpdated = DateVal(clock)]
               IN  /\ queue' = Append(queue, SetValue(updateMachine(machines, updated)))
                   /\ call' = Call("update", updated)
            /\ clock' = clock + 1
            /\ nOps' = nOps + 1
            /\ editError' = FALSE
            /\ pc' = "render"
    /\ UNCHANGED <<hookState, viewState, ldQueue, addError, nextId>>

\* the ids a caller can hold that are not in the collection: one that was
\* never in it, the one in the undo buffer, one whose buffered deletion was lost
MissingIds ==
    ({UUID(0)} \cup {lastDeleted[k].machine.id : k \in 1..Len(lastDeleted)}
               \cup overwritten) \ IdsOf(machines)

\* updateMachine called with a record whose id is not in the collection
UpdateMissing(id) ==
    /\ pc = "idle"
    /\ id \in MissingIds
    /\ nOps < MaxOps
    /\ LET updated == Machine(id, Str(<<"A", "B">>), Idle, DateVal(clock))
       IN  /\ queue' = Append(queue, SetValue(updateMachine(machines, updated)))
           /\ call' = Call("update", updated)
    /\ clock' = clock + 1
    /\ nOps' = nOps + 1
    /\ pc' = "render"
    /\ UNCHANGED <<hookState, formState, viewState, ldQueue, nextId>>

\* deleteMachine(id): the Delete button of a card, or a call with an id that
\* is not in the collection
DeleteMachine(id) ==
    /\ pc = "idle"
    /\ id \in ShownIds \cup MissingIds
    /\ nOps' = nOps + 1
    /\ queue' = Append(queue, DeleteUpdate(id))
    /\ call' = Call("delete", id)
    /\ pc' = "render"
    /\ UNCHANGED <<hookState, formState, viewState, ldQueue, clock, nextId>>

\* faulty variant: an undo that does not clear the buffer
UndoDelete_keepsBuffer ==
    /\ pc = "idle"
    /\ call' = Call("undo", lastDeleted)
    /\ IF lastDeleted = Null
       THEN UNCHANGED <<queue, pc>>
       ELSE /\ queue' = Append(queue, UndoUpdate(lastDeleted[1]))
            /\ pc' = "render"
    /\ UNCHANGED <<hookState, formState, viewState, ldQueue, clock, nextId,
                   nOps>>

\* undoDelete(): the Undo button, or a call while the buffer is empty
UndoDelete ==
    /\ pc = "idle"
    /\ call' = Call("undo", lastDeleted)
    /\ IF lastDeleted = Null
       THEN UNCHANGED <<queue, ldQueue, pc>>
       ELSE /\ queue' = Append(queue, UndoUpdate(lastDeleted[1]))
            /\ ldQueue' = Append(ldQueue, Null)
            /\ pc' = "render"
    /\ UNCHANGED <<hookState, formState, viewState, clock, nextId, nOps>>

\* the calls a handler written against useMachines can issue as its k-th
\* call: an add of a new record, an update of the first record, a delete of
\* the first or the last record or of an id that is not there, an undo
BatchCalls(k) ==
    {Call("add", Machine(UUID(nextId + k), Str(<<"A", "B">>), Offline,
                         DateVal(clock + k - 1)))}
    \cup {Call("update", [machines[i] EXCEPT !.status = Offline,
                                             !.lastUpdated = DateVal(clock + k - 1)])
             : i \in {1} \cap (1..Len(machines))}
    \cup {Call("delete", machines[i].id)
             : i \in {1, Len(machines)} \cap (1..Len(machines))}
    \cup {Call("delete", UUID(0)), Call("undo", Null)}

\* one call of an operation of useMachines during a handler: st holds the
\* updates queued so far; machines and lastDeleted are those of the render
\* the operation was created in.  A setMachines on a queue that is still
\* empty may be computed at once (eager): the updater of deleteMachine then
\* runs, and calls setLastDeleted, during the handler.
Enqueue(c, st, eager) ==
    IF c.op = "add"
    THEN [st EXCEPT !.queue = Append(@, SetValue(addMachine(machines, c.arg)))]
    ELSE IF c.op = "update"
    THEN [st EXCEPT !.queue = Append(@, SetValue(updateMachine(machines, c.arg)))]
    ELSE IF c.op = "delete"
    THEN IF eager /\ st.queue = <<>>
         THEN LET d == deleteUpdater(machines, c.arg)
              IN  IF d.buffered = Null THEN st
                  ELSE [queue |-> <<SetValue(d.value)>>,
                        ldQueue |-> Append(st.ldQueue, d.buffered)]
         ELSE [st EXCEPT !.queue = Append(@, DeleteUpdate(c.arg))]
    ELSE IF lastDeleted = Null THEN st
         ELSE [queue |-> Append(st.queue, UndoUpdate(lastDeleted[1])),
               ldQueue |-> Append(st.ldQueue, Null)]

\* a handler that calls two operations of useMachines before the next render
Batch(c1, c2, eager) ==
    /\ pc = "idle"
    /\ LET s1 == Enqueue(c1, [queue |-> queue, ldQueue |-> ldQueue], eager)
           s2 == Enqueue(c2, s1, eager)
       IN  /\ queue' = s2.queue
           /\ ldQueue' = s2.ldQueue
           /\ pc' = IF s2.queue = <<>> THEN "idle" ELSE "render"
    /\ call' = Call("batch", <<c1, c2>>)
    /\ nextId' = nextId + 2
    /\ clock' = clock + 2
    /\ nOps' = nOps + 1
    /\ UNCHANGED <<hookState, formState, viewState>>

\* StatusFilter's onChange: the user selects an option
SetStatusFilter(value) ==
    /\ pc = "idle"
    /\ statusFilter' = value
    /\ UNCHANGED <<hookState, formState, searchQuery, queue, ldQueue, pc, clock,
                   nextId, call, nOps>>

\* SearchBox's onChange: the user edits the search text
SetSearchQuery(value) ==
    /\ pc = "idle"
    /\ searchQuery' = value
    /\ UNCHANGED <<hookState, formState, statusFilter, queue, ldQueue, pc, clock,
                   nextId, call, nOps>>

----------------------------------------------------------------------------
(* React: render and passive effect *)

\* the render after an event: the queued updates become the new state
Render ==
    /\ pc = "render"
    /\ LET r == ApplyQueue(queue, machines, <<>>, FALSE)
       IN  /\ machines' = r.value
           /\ lastDeleted' = applyLastDeleted(lastDeleted, ldQueue \o r.lds)
           /\ undoBase' = IF call.op = "delete" /\ r.lds # <<>>
                          THEN Some(machines) ELSE Null
           /\ overwritten' = overwritten \cup
                  (IF r.lds # <<>> /\ lastDeleted # Null
                   THEN {lastDeleted[1].machine.id} ELSE {})
                  \cup {r.lds[k][1].machine.id : k \in 1..(Len(r.lds) - 1)}
           /\ pc' = IF r.changed THEN "effect" ELSE "idle"
    /\ queue' = <<>>
    /\ ldQueue' = <<>>
    /\ UNCHANGED <<storage, seeded, formState, viewState, clock, nextId, call,
                   nOps>>

\* useLocalStorage's effect, run after mount and after every change of value
Effect ==
    /\ pc = "effect"
    /\ storage' = PersistEffect(machines)
    /\ pc' = "idle"
    /\ UNCHANGED <<machines, lastDeleted, queue, ldQueue, seeded, formState,
                   viewState, clock, nextId, call, undoBase, overwritten, nOps>>

\* the page is reloaded: the modules are evaluated again, every component
\* state is lost, useLocalStorage's initializer runs and App renders.  The
\* ids and the time drawn for the seed are recorded only when the seed
\* becomes the collection; otherwise the seed is discarded unseen.
Reload ==
    /\ pc \in {"idle", "crashed"}
    /\ LET r == Initializer(storage, seeded, seedMachines(nextId, clock))
       IN  /\ machines' = r.value
           /\ storage' = r.store
           /\ pc' = IF RenderThrows(r.value) THEN "crashed" ELSE "effect"
           /\ nextId' = IF r.seedUsed THEN nextId + SeedSize ELSE nextId
           /\ clock' = IF r.seedUsed THEN clock + 1 ELSE clock
    /\ lastDeleted' = Null
    /\ queue' = <<>>
    /\ ldQueue' = <<>>
    /\ addError' = FALSE
    /\ editError' = FALSE
    /\ statusFilter' = ALL
    /\ searchQuery' = <<>>
    /\ call' = Call("load", storage)
    /\ undoBase' = Null
    /\ UNCHANGED <<seeded, overwritten, nOps>>

Next ==
    \/ \E in \in FormInputs : AddSubmit(in)
    \/ \E i \in 1..Len(machines), in \in FormInputs : EditSave(i, in)
    \/ \E id \in MissingIds : UpdateMissing(id)
    \/ \E id \in ShownIds \cup MissingIds :
           nOps < MaxOps /\ DeleteMachine(id)
    \/ UndoDelete
    \/ Render
    \/ Effect
    \/ Reload

Spec == Init /\ [][Next]_vars

SpecHook == InitHook /\ [][Next]_vars

\* the user only deletes (and undoes): enough deletes to empty the collection
NextDrain ==
    \/ \E id \in ShownIds : nOps < MaxDrain /\ DeleteMachine(id)
    \/ UndoDelete
    \/ Render
    \/ Effect
    \/ Reload

SpecDrain == Init /\ [][NextDrain]_vars

\* the form inputs that pass the validation
ValidInputs == {in \in FormInputs : ~NameTooShort(in.name)}

\* the user filters and searches, and changes the collection with inputs
\* that the forms accept
NextView ==
    \/ \E value \in StatusFilterValues : SetStatusFilter(value)
    \/ \E value \in SearchTexts : SetSearchQuery(value)
    \/ \E in \in ValidInputs : nOps < MaxView /\ AddSubmit(in)
    \/ \E i \in 1..Len(machines), in \in ValidInputs :
           nOps < MaxView /\ EditSave(i, in)
    \/ \E id \in ShownIds : nOps < MaxView /\ DeleteMachine(id)
    \/ UndoDelete
    \/ Render
    \/ Effect
    \/ Reload

SpecView == Init /\ [][NextView]_vars

\* a component that calls two operations of the hook in one handler
NextBatch ==
    \/ \E c1 \in BatchCalls(1), c2 \in BatchCalls(2), eager \in BOOLEAN :
           nOps < MaxBatch /\ Batch(c1, c2, eager)
    \/ Render
    \/ Effect
    \/ Reload

SpecBatch == Init /\ [][NextBatch]_vars

TypeOK ==
    /\ pc \in {"idle", "render", "effect", "crashed"}
    /\ Len(lastDeleted) <= 1
    /\ Len(storage) <= 1
    /\ call.op \in {"load", "add", "update", "delete", "undo", "batch"}
    /\ statusFilter \in StatusFilterValues
    /\ searchQuery \in SearchTexts

----------------------------------------------------------------------------
(* Properties *)

PressB == Str(<<"P","r","e","s","s"," ","B">>)

\* C1: deleteMachine(id) of a present id followed immediately by undoDelete()
\* gives back the collection as it was before the delete: the same records
\* in the same order, the deleted record at its original index; the buffer
\* is empty again.
C1_DeleteUndoRoundTrip ==
    [][(pc = "render" /\ call.op = "undo" /\ undoBase # Null)
         => /\ machines' = undoBase[1]
            /\ machines'[call.arg[1].index + 1] = call.arg[1].machine
            /\ lastDeleted' = Null]_vars

\* C1 witness: 'Press B' was deleted from the seed of 6 and the undo has put
\* it back at index 1
C1_Witness ==
    /\ pc = "idle"
    /\ call.op = "undo"
    /\ call.arg # Null
    /\ call.arg[1].index = 1
    /\ call.arg[1].machine.name = PressB
    /\ Len(machines) = SeedSize
    /\ machines[2].name = PressB
    /\ nOps = 1

\* C2: no two records of the collection have the same id.
C2_UniqueIds ==
    \A i, j \in 1..Len(machines) : i # j => machines[i].id # machines[j].id

\* C2 witness: a machine was added through the form, another one deleted and
\* the deletion undone
C2_Witness ==
    /\ pc = "idle"
    /\ call.op = "undo"
    /\ call.arg # Null
    /\ Len(machines) = SeedSize + 1
    /\ call.arg[1].machine.id \in IdsOf(machines)

\* C3: the undo buffer holds only the most recent deletion.  Once a second
\* delete has replaced the buffered deletion of a, a is neither in the buffer
\* nor in the collection, in this state and all later ones (whatever undo
\* calls follow).
C3_OnlyLatestDeletion ==
    \A id \in overwritten :
        /\ id \notin IdsOf(machines)
        /\ lastDeleted # Null => lastDeleted[1].machine.id # id
        /\ \A k \in 1..Len(queue) :
               queue[k].op = "undo" => queue[k].arg.machine.id # id

\* C3 witness: a then b were deleted, the undo has restored b and a is gone
C3_Witness ==
    /\ pc = "idle"
    /\ overwritten # {}
    /\ call.op = "undo"
    /\ call.arg # Null
    /\ call.arg[1].machine.id \in IdsOf(machines)
    /\ lastDeleted = Null
    /\ Len(machines) = SeedSize - 1

\* C4: updateMachine(r) changes neither the length of the collection, nor the
\* set of ids, nor a position: the record whose id is r.id becomes r, every
\* other record stays as it is, and the undo buffer is unchanged.
C4_UpdateInPlace ==
    [][(pc = "render" /\ call.op = "update")
         => /\ Len(machines') = Len(machines)
            /\ IdsOf(machines') = IdsOf(machines)
            /\ \A i \in 1..Len(machines) :
                   machines'[i] = IF machines[i].id = call.arg.id
                                  THEN call.arg ELSE machines[i]
            /\ lastDeleted' = lastDeleted]_vars

\* C4 witness: the edit form has updated a record that is not at the end of
\* the collection while a deletion is buffered
C4_Witness ==
    /\ pc = "idle"
    /\ call.op = "update"
    /\ lastDeleted # Null
    /\ \E i \in 1..(Len(machines) - 1) : machines[i] = call.arg

\* C5: deleteMachine(id) with id present removes exactly the record with
\* that id, keeps the other records in their order, and sets the undo buffer
\* to the removed record and the index it had, whatever the buffer held.
C5_DeleteRemovesAndBuffers ==
    [][(pc = "render" /\ call.op = "delete" /\ call.arg \in IdsOf(machines))
         => \E k \in 1..Len(machines) :
               /\ machines[k].id = call.arg
               /\ machines' = SubSeq(machines, 1, k - 1)
                                 \o SubSeq(machines, k + 1, Len(machines))
               /\ lastDeleted' = Some([machine |-> machines[k], index |-> k - 1])]_vars

\* C5 witness: a second delete has replaced an earlier buffered deletion
C5_Witness ==
    /\ pc = "idle"
    /\ call.op = "delete"
    /\ undoBase # Null
    /\ overwritten # {}
    /\ lastDeleted # Null
    /\ lastDeleted[1].machine.id = call.arg
    /\ lastDeleted[1].index > 0

\* the id the last call of updateMachine or deleteMachine was about
TargetId == IF call.op = "update" THEN call.arg.id ELSE call.arg

\* C6: updateMachine and deleteMachine with an id that is not in the
\* collection change neither the collection nor the undo buffer, and nothing
\* is thrown.
C6_MissingIdIsNoOp ==
    [][(pc = "render" /\ call.op \in {"update", "delete"}
                      /\ TargetId \notin IdsOf(machines))
         => /\ machines' = machines
            /\ lastDeleted' = lastDeleted
            /\ pc' \in {"idle", "effect"}]_vars

\* C6 witness: deleteMachine was called with an id that is not in the
\* collection while a deletion was buffered, and the buffer is still there
C6_Witness ==
    /\ pc = "idle"
    /\ call.op = "delete"
    /\ undoBase = Null
    /\ call.arg \notin IdsOf(machines)
    /\ lastDeleted # Null

\* what a step does when it loads the page or is part of an undoDelete()
UndoSteps ==
    /\ call'.op = "load" => lastDeleted' = Null
    /\ (pc = "idle" /\ call'.op = "undo" /\ lastDeleted = Null)
         => UNCHANGED <<machines, lastDeleted, queue, ldQueue, storage, pc>>
    /\ (pc = "render" /\ call.op = "undo")
         => /\ lastDeleted # Null
            /\ lastDeleted' = Null
            /\ Len(machines') = Len(machines) + 1
            /\ Cardinality({i \in 1..Len(machines') :
                                machines'[i].id = lastDeleted[1].machine.id}) = 1
            /\ \E k \in 1..Len(machines') :
                   /\ machines'[k] = lastDeleted[1].machine
                   /\ machines = SubSeq(machines', 1, k - 1)
                                    \o SubSeq(machines', k + 1, Len(machines'))

\* C7: the undo buffer is empty after a page load; undoDelete() with an
\* empty buffer changes neither the collection nor the buffer; undoDelete()
\* with a buffered deletion puts the record back exactly once and empties
\* the buffer, so that the next undoDelete() finds it empty.
C7_UndoOnce == lastDeleted = Null /\ [][UndoSteps]_vars

\* C7 witness: an undo has put a record back and emptied the buffer
C7_Witness ==
    /\ pc = "idle"
    /\ call.op = "undo"
    /\ call.arg # Null
    /\ lastDeleted = Null
    /\ \E i \in 1..Len(machines) : machines[i] = call.arg[1].machine

\* C8: whenever no operation is in progress (the page is idle, or a handler
\* has only queued its update), the item stored under 'machines' is the
\* serialization of the collection in memory.
C8_StoredIsCurrent ==
    pc \in {"idle", "render"} => storage = Some(Stringify(machines))

\* C8 witness: two operations that changed the collection have completed
C8_Witness ==
    /\ pc = "idle"
    /\ nOps >= 2
    /\ call.op = "add"
    /\ lastDeleted # Null
    /\ machines[Len(machines)] = call.arg

\* C9: at a page load a stored value takes precedence over the seed: the
\* collection is the deserialized stored value and the stored item is left
\* as it is; only when nothing is stored is the seed returned and persisted.
\* A stored empty collection (every machine was deleted) gives the empty
\* collection, not the seed.
C9_StoredTakesPrecedence ==
    (call.op = "load" /\ pc \in {"effect", "crashed"}) =>
        IF call.arg # Null
        THEN /\ machines = Parse(call.arg[1])
             /\ storage = call.arg
             /\ call.arg[1] = <<>> => machines = <<>>
        ELSE /\ machines = seedMachines(nextId - SeedSize, clock - 1)
             /\ storage = Some(Stringify(machines))

\* C9 witness: the six machines were deleted, the page was reloaded and the
\* collection is empty
C9_Witness ==
    /\ call.op = "load"
    /\ pc = "effect"
    /\ nOps >= SeedSize
    /\ storage = Some(<<>>)
    /\ machines = <<>>

\* C10: when nothing is stored and no seed is passed, the adapter returns the
\* default and writes nothing: once the mount effect has run, and before any
\* change of the value, the key is still absent.
C10_DefaultNotPersisted ==
    (~seeded /\ call.op = "load" /\ call.arg = Null /\ pc = "idle")
        => storage = Null

\* what a step does when a form shows its error: a submit was rejected
RejectedSubmit ==
    ((addError' /\ ~addError) \/ (editError' /\ ~editError))
        => UNCHANGED <<machines, lastDeleted, storage, queue, ldQueue, pc, call>>

\* a form hands a record to the hook only when its name has 2 or more
\* characters after trimming
AcceptedSubmit ==
    (pc = "idle" /\ pc' = "render" /\ call'.op \in {"add", "update"})
        => ~NameTooShort(call'.arg.name.val)

\* the two forms reject a name shorter than 2 characters after trimming
\* before anything is handed to the hook, and accept every other name
FormsValidate == [][RejectedSubmit /\ AcceptedSubmit]_vars

\* C11: every record of every reachable collection has a name that is a text
\* of 2 or more characters after trimming (the forms reject every shorter
\* name before any mutation).
C11_NamesValidated ==
    \A i \in 1..Len(machines) :
        /\ machines[i].name.kind = "str"
        /\ ~NameTooShort(machines[i].name.val)

\* C12: addMachine(r) appends r as the last element, leaves every existing
\* record at its position, leaves the undo buffer as it is, and a lookup by
\* r.id then finds a record equal to r.
C12_AddAppends ==
    [][(pc = "render" /\ call.op = "add")
         => /\ Len(machines') = Len(machines) + 1
            /\ \A i \in 1..Len(machines) : machines'[i] = machines[i]
            /\ machines'[Len(machines')] = call.arg
            /\ \E i \in 1..Len(machines') : machines'[i].id = call.arg.id
            /\ \A i \in 1..Len(machines') :
                   machines'[i].id = call.arg.id => machines'[i] = call.arg
            /\ lastDeleted' = lastDeleted]_vars

\* C12 witness: a machine was added through the form after a delete; it is
\* the last of the collection and the deletion is still buffered
C12_Witness ==
    /\ pc = "idle"
    /\ call.op = "add"
    /\ nOps = 2
    /\ lastDeleted # Null
    /\ Len(machines) = SeedSize
    /\ machines[Len(machines)] = call.arg
    /\ call.arg.id \notin IdsOf(SubSeq(machines, 1, Len(machines) - 1))

CutterA == Str(<<"C","u","t","t","e","r"," ","A">>)

\* the positions of the records that pass both predicates
Passing ==
    {i \in 1..Len(machines) :
        /\ statusFilter = ALL \/ machines[i].status = statusFilter
        /\ matchesSearch(machines[i], searchQuery)}

\* the projection holds exactly the passing records, in the order of the
\* collection
ProjectionOK ==
    ~RenderThrows(machines) =>
        LET f == filteredMachines(machines, statusFilter, searchQuery)
        IN  /\ Len(f) = Cardinality(Passing)
            /\ \A k \in 1..Len(f) :
                   f[k] = machines[CHOOSE i \in Passing :
                                      Cardinality({j \in Passing : j < i}) = k - 1]
            /\ ((statusFilter = ALL /\ searchQuery = <<>>) => (f = machines))
            /\ ((statusFilter = Running /\ searchQuery = <<>>) =>
                   (/\ \A k \in 1..Len(f) : f[k].status = Running
                    /\ Len(f) = Cardinality({i \in 1..Len(machines) :
                                                machines[i].status = Running})))

\* selecting a filter or typing a search text leaves the collection, the undo
\* buffer and the stored item as they are
ProjectionSteps ==
    ((statusFilter' # statusFilter \/ searchQuery' # searchQuery)
         /\ call'.op # "load")
        => UNCHANGED <<machines, lastDeleted, storage, queue, ldQueue>>

\* C13: for a collection whose names are texts, the projection under
\* (statusFilter, searchQuery) contains a record iff (statusFilter is 'ALL'
\* or equals its status) and the search predicate passes; it keeps the order
\* of the collection and does not modify it; with ('ALL', '') it is the
\* whole collection and with ('Running', '') exactly the Running records.
C13_Projection == []ProjectionOK /\ [][ProjectionSteps]_vars

\* C13 witness: a Running machine was added and the filter 'Running' with an
\* empty search text shows 4 of the 7 machines
C13_Witness ==
    /\ pc = "idle"
    /\ statusFilter = Running
    /\ searchQuery = <<>>
    /\ Len(machines) = SeedSize + 1
    /\ ~RenderThrows(machines)
    /\ Len(filteredMachines(machines, statusFilter, searchQuery)) = 4

\* C14: the search predicate is a case-insensitive substring test on the
\* name: a record passes iff its lower-cased name contains the lower-cased
\* search text as a contiguous substring; the empty search text passes every
\* record; 'Cutter A' passes for 'cutt' and 'CUTT' and fails for 'zzz'.
C14_SearchPredicate ==
    ~RenderThrows(machines) =>
        \A i \in 1..Len(machines) :
            LET name == machines[i].name.val
                passes == matchesSearch(machines[i], searchQuery)
            IN  /\ passes <=>
                       \E a \in 0..Len(name), b \in 0..Len(name) :
                           /\ a <= b
                           /\ SubSeq(toLowerCase(name), a + 1, b)
                                  = toLowerCase(searchQuery)
                /\ (searchQuery = <<>>) => passes
                /\ (machines[i].name = CutterA) =>
                       /\ (searchQuery \in {<<"c","u","t","t">>,
                                             <<"C","U","T","T">>}) => passes
                       /\ (searchQuery = <<"z","z","z">>) => ~passes

\* C14 witness: the search text 'CUTT' shows 'Cutter A' and nothing else
C14_Witness ==
    /\ pc = "idle"
    /\ searchQuery = <<"C","U","T","T">>
    /\ statusFilter = ALL
    /\ Len(machines) > 1
    /\ ~RenderThrows(machines)
    /\ \E i \in 1..Len(machines) : machines[i].name = CutterA
    /\ LET f == filteredMachines(machines, statusFilter, searchQuery)
       IN  Len(f) = 1 /\ f[1].name = CutterA

\* what a step does to the lastUpdated of the records
TimestampSteps ==
    /\ (pc = "idle" /\ pc' = "render" /\ call'.op \in {"add", "update"})
         => call'.arg.lastUpdated = DateVal(clock)
    /\ (pc = "idle" /\ pc' = "render" /\ call'.op = "update"
                    /\ call'.arg.id \in IdsOf(machines))
         => \E i \in 1..Len(machines) :
                /\ machines[i].id = call'.arg.id
                /\ machines[i].lastUpdated.val < call'.arg.lastUpdated.val
    /\ (pc = "render" /\ call.op = "update")
         => /\ Len(machines') = Len(machines)
            /\ \A i \in 1..Len(machines) :
                   /\ machines'[i].id = machines[i].id
                   /\ machines'[i].lastUpdated =
                          IF machines[i].id = call.arg.id
                          THEN call.arg.lastUpdated ELSE machines[i].lastUpdated
    /\ (pc = "render" /\ call.op = "add")
         => /\ machines'[Len(machines')].lastUpdated = call.arg.lastUpdated
            /\ \A i \in 1..Len(machines) :
                   machines'[i].lastUpdated = machines[i].lastUpdated
    /\ (pc = "render" /\ call.op = "delete" /\ call.arg \in IdsOf(machines))
         => \E k \in 1..Len(machines) :
                /\ machines[k].id = call.arg
                /\ lastDeleted'[1].machine.lastUpdated = machines[k].lastUpdated
    /\ (pc = "render" /\ call.op = "undo")
         => \E k \in 1..Len(machines') :
                /\ machines'[k].id = lastDeleted[1].machine.id
                /\ machines'[k].lastUpdated = lastDeleted[1].machine.lastUpdated
                /\ \A i \in 1..Len(machines) :
                       machines'[IF i < k THEN i ELSE i + 1].lastUpdated
                           = machines[i].lastUpdated

\* C15: a successful save of the edit form gives the record the current
\* time as lastUpdated, keeps its id and leaves the lastUpdated of every
\* other record; a record of the add form gets the time of its creation;
\* a delete and the undo that follows keep the lastUpdated of the record.
C15_LastUpdated == [][TimestampSteps]_vars

\* C15 witness: a machine was added and then a seed machine edited: the
\* collection holds the seed time, the time of the add and the time of the
\* edit
C15_Witness ==
    /\ pc = "idle"
    /\ call.op = "update"
    /\ Len(machines) = SeedSize + 1
    /\ call.arg.lastUpdated = DateVal(clock - 1)
    /\ \E i \in 1..SeedSize : machines[i] = call.arg
    /\ Cardinality({machines[i].lastUpdated : i \in 1..Len(machines)}) = 3

\* C16: undoDelete() inserts the buffered record at position
\* min(buffered index, length of the collection), whatever adds, updates or
\* no-op deletes happened since the delete; the other records keep their
\* order.
C16_UndoAtClampedIndex ==
    [][(pc = "render" /\ call.op = "undo" /\ call.arg # Null)
         => LET ld == call.arg[1]
                at == IF ld.index < Len(machines) THEN ld.index ELSE Len(machines)
            IN  /\ Len(machines') = Len(machines) + 1
                /\ machines'[at + 1] = ld.machine
                /\ \A i \in 1..Len(machines) :
                       machines'[IF i <= at THEN i ELSE i + 1] = machines[i]]_vars

\* C16 witness: 'Press B' was deleted, a machine was added, and the undo has
\* put 'Press B' back at index 1 of the 7 machines
C16_Witness ==
    /\ pc = "idle"
    /\ call.op = "undo"
    /\ call.arg # Null
    /\ nOps = 2
    /\ Len(machines) = SeedSize + 1
    /\ call.arg[1].index = 1
    /\ machines[2] = call.arg[1].machine
    /\ machines[2].name = PressB
    /\ lastDeleted = Null

\* what the hook's operations do when each is called in a render of its own
ApplyCall(c, st) ==
    IF c.op = "add"
    THEN [st EXCEPT !.value = addMachine(@, c.arg)]
    ELSE IF c.op = "update"
    THEN [st EXCEPT !.value = updateMachine(@, c.arg)]
    ELSE IF c.op = "delete"
    THEN LET d == deleteUpdater(st.value, c.arg)
         IN  IF d.buffered = Null THEN st
             ELSE [value |-> d.value, buffer |-> d.buffered]
    ELSE IF st.buffer = Null THEN st
         ELSE [value |-> undoUpdater(st.value, st.buffer[1]), buffer |-> Null]

RECURSIVE OneAtATime(_, _)
OneAtATime(calls, st) ==
    IF calls = <<>> THEN st
    ELSE OneAtATime(Tail(calls), ApplyCall(Head(calls), st))

\* the collection and the buffer after the calls of a handler are those of
\* the same calls applied one at a time
BatchSteps ==
    /\ (pc = "idle" /\ pc' = "idle" /\ call'.op = "batch" /\ nOps' # nOps)
         => OneAtATime(call'.arg, [value |-> machines, buffer |-> lastDeleted])
                = [value |-> machines, buffer |-> lastDeleted]
    /\ (pc = "render" /\ call.op = "batch")
         => OneAtATime(call.arg, [value |-> machines, buffer |-> lastDeleted])
                = [value |-> machines', buffer |-> lastDeleted']

\* C17: calls of addMachine, updateMachine, deleteMachine and undoDelete
\* issued from the same render give the collection and the undo buffer that
\* the same calls give when applied one at a time in order.
C17_AsOneAtATime == [][BatchSteps]_vars

\* C18: persisting the collection and reloading it gives the same records in
\* the same order: id, name and status are the same texts and lastUpdated is
\* a timestamp again.
C18_ReloadRoundTrip ==
    [][(pc = "idle" /\ call'.op = "load")
         => /\ machines' = machines
            /\ Parse(Stringify(machines)) = machines]_vars

\* C19: whenever the undo buffer holds a value, the buffered index is
\* between 0 and the length of the collection.
C19_IndexInRange ==
    lastDeleted # Null =>
        (0 <= lastDeleted[1].index /\ lastDeleted[1].index <= Len(machines))

\* C19 witness: the last machine was deleted after another operation: the
\* buffered index is the length of the collection
C19_Witness ==
    /\ pc = "idle"
    /\ call.op = "delete"
    /\ nOps = 2
    /\ lastDeleted # Null
    /\ lastDeleted[1].machine.id = call.arg
    /\ lastDeleted[1].index = Len(machines)
    /\ Len(machines) >= SeedSize

\* C20: whenever the undo buffer holds a record, no record of the collection
\* has its id.
C20_BufferedIdAbsent ==
    lastDeleted # Null => lastDeleted[1].machine.id \notin IdsOf(machines)

\* C20 witness: updateMachine was called with a record that has the id of
\* the buffered record, and the id is still not in the collection
C20_Witness ==
    /\ pc = "idle"
    /\ call.op = "update"
    /\ lastDeleted # Null
    /\ call.arg.id = lastDeleted[1].machine.id
    /\ call.arg.id \notin IdsOf(machines)
    /\ Len(machines) = SeedSize - 1

====
